---- MODULE Spec2Model ----
(***************************************************************************)
(* MCQ normalisation-and-rendering pipeline of src/generation.py:          *)
(*   - the repair engine (correct_output and its two line passes),         *)
(*   - the structural parser (parse_mcq_text), one loop iteration a step,  *)
(*   - save_pdf / run_mcq_pipeline with the Playwright renderer and the    *)
(*     ReportLab fallback, the output file and the temporary directory.    *)
(*                                                                         *)
(* A text is a sequence of characters, a character a one-letter string.    *)
(* The answer words of Hindi and Odia are caseless and stand as one token  *)
(* each (UttarHi, UttarOr).                                                *)
(***************************************************************************)
EXTENDS Integers, Sequences, FiniteSets, TLC

VARIABLES
    \* generate_mcq_text / correct_output
    raw,        \* response.text of the model (generation.py:239)
    lang,       \* language code given to generate_mcq_text
    optLines,   \* `corrected` of fix_missing_option_markers at loop end
    ansIn,      \* `lines` of fix_missing_answers (its input, split)
    ansLines,   \* `corrected` of fix_missing_answers at loop end
    text,       \* text returned by generate_mcq_text
    again,      \* correct_output applied to the returned text once more
    rstage,     \* "raw" | "generated" | "again"
    \* parse_mcq_text
    plines,     \* text.splitlines() of the parser's input
    pidx,       \* index of the next line of the for loop
    current,    \* the in-progress Question, or None
    questions,  \* the result list
    ppc,        \* "scan" | "done"
    \* run_mcq_pipeline / save_pdf
    pc,         \* position of each invocation
    outpath,    \* out_path of each invocation
    fs,         \* the output directory: path -> file, or NoFile
    tmpdirs,    \* temporary directories that exist, by creating invocation
    outcome,    \* what each renderer of an invocation did
    clock,      \* wall clock, in seconds
    fontOnDisk, \* whether the language font files exist under fonts/
    \* save_pdf: parse_mcq_text, build_html_document, the fallback's font
    srctext,    \* `text` given to save_pdf
    given,      \* the language as the caller spelled it
    entry,      \* the function the caller called, or None
    document,   \* the document of build_html_document, or NoDocument
    redocument, \* the document with its texts escaped once more
    fbfont,     \* font_name of the fallback section, or None
    fbdrawn,    \* [items: the strings the fallback section draws], or NoDrawing
    cpc,        \* "start" | "built" | "again"
    \* the canvas loops: the fallback section of save_pdf, generate.save_pdf
    dlines,     \* the lines the loop goes through
    didx,       \* index of the next line of the for loop
    drest,      \* `line` of generate.save_pdf inside its while loop
    dy,         \* the cursor y, in 1/1000 point
    dpage,      \* the drawString calls of the page being drawn: [y, s]
    dpages,     \* the pages ended by showPage or save
    dpc         \* "loop" | "saved"; "gen" | "while" | "gsaved" in generate.save_pdf

repairVars == <<raw, lang, optLines, ansIn, ansLines, text, again, rstage>>
parseVars  == <<plines, pidx, current, questions, ppc>>
renderVars == <<pc, outpath, fs, tmpdirs, outcome, clock, fontOnDisk>>
composeVars == <<srctext, given, entry, document, redocument, fbfont, fbdrawn, cpc>>
canvasVars == <<dlines, didx, drest, dy, dpage, dpages, dpc>>
vars == <<repairVars, parseVars, renderVars, composeVars, canvasVars>>

None == "None"

(***************************************************************************)
(* Characters and strings                                                  *)
(***************************************************************************)
NL == "\n"
UttarHi == "<uttar-hi>"
UttarOr == "<uttar-or>"

Digits == {"0", "1", "2", "3", "4", "5", "6", "7", "8", "9"}
OptionLetters == {"A", "B", "C", "D"}

IsSpace(c) == c \in {" ", NL, "\t"}
IsDigit(c) == c \in Digits

LowerAZ == << "a", "b", "c", "d", "e", "f", "g", "h", "i", "j", "k", "l", "m",
             "n", "o", "p", "q", "r", "s", "t", "u", "v", "w", "x", "y", "z" >>
UpperAZ == << "A", "B", "C", "D", "E", "F", "G", "H", "I", "J", "K", "L", "M",
             "N", "O", "P", "Q", "R", "S", "T", "U", "V", "W", "X", "Y", "Z" >>

\* str.lower() on a character
Lower(c) ==
    IF \E i \in 1..26 : c = UpperAZ[i] THEN LowerAZ[CHOOSE i \in 1..26 : c = UpperAZ[i]] ELSE c

lower(s) == [i \in 1..Len(s) |-> Lower(s[i])]

RECURSIVE lstrip(_)
lstrip(s) == IF s # <<>> /\ IsSpace(Head(s)) THEN lstrip(Tail(s)) ELSE s

RECURSIVE rstrip(_)
rstrip(s) ==
    IF s # <<>> /\ IsSpace(s[Len(s)]) THEN rstrip(SubSeq(s, 1, Len(s) - 1)) ELSE s

strip(s) == rstrip(lstrip(s))

startswith(s, p) == Len(s) >= Len(p) /\ SubSeq(s, 1, Len(p)) = p

\* str.splitlines(): a line ends at each line break; what follows the last
\* break is a line only when it is not empty.
RECURSIVE SplitFrom(_, _, _)
SplitFrom(t, i, cur) ==
    IF i > Len(t) THEN (IF cur = <<>> THEN <<>> ELSE <<cur>>)
    ELSE IF t[i] = NL THEN <<cur>> \o SplitFrom(t, i + 1, <<>>)
    ELSE SplitFrom(t, i + 1, Append(cur, t[i]))

splitlines(t) == SplitFrom(t, 1, <<>>)

\* "\n".join(lines)
RECURSIVE join(_)
join(ls) ==
    IF ls = <<>> THEN <<>>
    ELSE IF Len(ls) = 1 THEN ls[1]
    ELSE ls[1] \o <<NL>> \o join(Tail(ls))

reversed(s) == [i \in 1..Len(s) |-> s[Len(s) + 1 - i]]

\* re.match(r"^\d+\.", s)
RECURSIVE DigitRun(_, _)
DigitRun(s, i) == IF i <= Len(s) /\ IsDigit(s[i]) THEN DigitRun(s, i + 1) ELSE i - 1

MatchNumberDot(s) ==
    LET n == DigitRun(s, 1) IN n >= 1 /\ Len(s) > n /\ s[n + 1] = "."

\* re.match(r"^[A-D]\)", s)
MatchOption(s) == Len(s) >= 2 /\ s[1] \in OptionLetters /\ s[2] = ")"

(***************************************************************************)
(* Repair engine                                                           *)
(***************************************************************************)
\* the count without the `break` at a question-number line
CountBackNoBreak(rev) ==
    Cardinality({i \in 1..Len(rev) : MatchOption(strip(rev[i]))})

\* The inner loop of fix_missing_option_markers: walk back over the lines
\* already corrected, stop at a question-number line, count option lines.
RECURSIVE CountBack(_)
CountBack(rev) ==
    IF rev = <<>> THEN 0
    ELSE LET prev_line == strip(Head(rev)) IN
         IF MatchNumberDot(prev_line) THEN 0
         ELSE (IF MatchOption(prev_line) THEN 1 ELSE 0) + CountBack(Tail(rev))

option_count(corrected) == CountBack(reversed(corrected))

\* chr(65 + option_count)
chr65(n) == CASE n = 0 -> "A" [] n = 1 -> "B" [] n = 2 -> "C" [] n = 3 -> "D"
              [] n = 4 -> "E" [] OTHER -> "F"

MaxOptions == 4

LooksTruncated(stripped) == startswith(stripped, <<")">>) /\ Len(stripped) > 1

\* the iteration without `if option_count < 4`
FixOneMarkerNoCap(corrected, line) ==
    LET stripped == strip(line) IN
    IF LooksTruncated(stripped)
    THEN Append(corrected, <<chr65(option_count(corrected))>> \o stripped)
    ELSE Append(corrected, line)

\* One iteration of the outer loop of fix_missing_option_markers.
FixOneMarker(corrected, line) ==
    LET stripped == strip(line) IN
    IF LooksTruncated(stripped) /\ option_count(corrected) < MaxOptions
    THEN Append(corrected, <<chr65(option_count(corrected))>> \o stripped)
    ELSE Append(corrected, line)

RECURSIVE FixMarkerLines(_, _)
FixMarkerLines(corrected, lines) ==
    IF lines = <<>> THEN corrected
    ELSE FixMarkerLines(FixOneMarker(corrected, Head(lines)), Tail(lines))

fix_missing_option_markers(t) ==
    IF t = <<>> THEN <<>> ELSE join(FixMarkerLines(<<>>, splitlines(t)))

AnswerLabels ==
    { <<"a", "n", "s", "w", "e", "r", ":">>, <<"a", "n", "s", "w", "e", "r">>,
      <<UttarHi, ":">>, <<UttarOr, ":">> }

AnswerA == <<"A", "n", "s", "w", "e", "r", ":", " ", "A">>

FixOneAnswer(line) ==
    IF lower(strip(line)) \in AnswerLabels THEN AnswerA ELSE line

FixAnswerLines(lines) == [i \in 1..Len(lines) |-> FixOneAnswer(lines[i])]

fix_missing_answers(t) ==
    IF t = <<>> THEN <<>> ELSE join(FixAnswerLines(splitlines(t)))

\* re.sub(r"(\d+)\.(?!\s)", r"\1. ", t) and re.sub(r"([A-D])\)(?!\s)", r"\1) ", t):
\* a match ends at a mark that directly follows a digit (an option letter) and
\* is not followed by white space; matches cannot overlap, since none ends in a
\* digit or a letter. Each match gets one space after its mark.
MarkMatches(t, j, mark, before) ==
    /\ t[j] = mark
    /\ j > 1 /\ t[j - 1] \in before
    /\ ~(j < Len(t) /\ IsSpace(t[j + 1]))

RECURSIVE SubSpaceAfter(_, _, _, _)
SubSpaceAfter(t, j, mark, before) ==
    IF j > Len(t) THEN <<>>
    ELSE (IF MarkMatches(t, j, mark, before) THEN <<t[j], " ">> ELSE <<t[j]>>)
         \o SubSpaceAfter(t, j + 1, mark, before)

NormalizeSpaces(t) ==
    SubSpaceAfter(SubSpaceAfter(t, 1, ".", Digits), 1, ")", OptionLetters)

correct_output(t, language) ==
    IF t = <<>> THEN <<>>
    ELSE NormalizeSpaces(fix_missing_answers(fix_missing_option_markers(t)))

\* a strict list that also names Telugu
STRICT_WITH_TELUGU == {"hindi", "odia", "telugu"}

STRICT_LANGUAGES == {"hindi", "odia"}
LANG_DISPLAY == {"english", "telugu", "hindi", "odia"}

(***************************************************************************)
(* Structural parser: parse_mcq_text, one iteration of its loop a step     *)
(***************************************************************************)
NoQuestion == [none |-> TRUE]
NoDocument == [none |-> TRUE]
NoDrawing == [none |-> TRUE]

\* leading white space of s
RECURSIVE SpaceRun(_, _)
SpaceRun(s, i) == IF i <= Len(s) /\ IsSpace(s[i]) THEN SpaceRun(s, i + 1) ELSE i - 1

\* the last '?' of s (0: none)
LastMark(s) ==
    LET Q == {i \in 1..Len(s) : s[i] = "?"} IN
    IF Q = {} THEN 0 ELSE CHOOSE i \in Q : \A k \in Q : k <= i

\* re.match(r"^(\d+)\.\s*(.+\?)", s): the digits, the period, white space
\* (greedy, given back one character when nothing else precedes the last
\* '?'), then everything up to the last '?' of the line.
q_match(s) ==
    LET n == DigitRun(s, 1)
        r == SubSeq(s, n + 2, Len(s))
        w == SpaceRun(r, 1)
        m == LastMark(r)
    IN  IF ~MatchNumberDot(s) THEN [ok |-> FALSE]
        ELSE IF m >= w + 2
             THEN [ok |-> TRUE, number |-> SubSeq(s, 1, n), content |-> SubSeq(r, w + 1, m)]
        ELSE IF m = w + 1 /\ w >= 1
             THEN [ok |-> TRUE, number |-> SubSeq(s, 1, n), content |-> SubSeq(r, w, m)]
        ELSE [ok |-> FALSE]

\* stripped.split(':')[-1]
AfterLastColon(s) ==
    LET C == {i \in 1..Len(s) : s[i] = ":"} IN
    IF C = {} THEN s ELSE SubSeq(s, (CHOOSE i \in C : \A k \in C : k <= i) + 1, Len(s))

AnswerPrefix == <<"A", "n", "s", "w", "e", "r", ":">>

\* stripped if stripped.startswith("Answer:") else f"Answer: {...}"
answer_of(stripped) ==
    IF startswith(stripped, AnswerPrefix) THEN stripped
    ELSE AnswerPrefix \o <<" ">> \o strip(AfterLastColon(stripped))

\* no append of the Question in progress
FlushNever(qs, cur) == qs

\* the Question in progress appended twice
FlushTwice(qs, cur) == IF cur # NoQuestion THEN Append(Append(qs, cur), cur) ELSE qs

\* no append of a Question whose number the result already has
FlushDedup(qs, cur) ==
    IF cur # NoQuestion /\ ~\E i \in 1..Len(qs) : qs[i].number = cur.number
    THEN Append(qs, cur) ELSE qs

\* `if current: questions.append(current)`
Flush(qs, cur) == IF cur # NoQuestion THEN Append(qs, cur) ELSE qs

ParserAt(kind) ==
    /\ ppc = "scan"
    /\ pidx <= Len(plines)
    /\ LET stripped == strip(plines[pidx]) IN
       kind = ( IF stripped = <<>> THEN "blank"
                ELSE IF q_match(stripped).ok THEN "question"
                ELSE IF current # NoQuestion /\ MatchOption(stripped) THEN "option"
                ELSE IF current # NoQuestion
                        /\ startswith(lower(stripped), <<"a", "n", "s", "w", "e", "r">>)
                     THEN "answer"
                ELSE "other" )

\* `if not stripped: continue`
SkipBlank ==
    /\ ParserAt("blank")
    /\ pidx' = pidx + 1
    /\ UNCHANGED <<plines, current, questions, ppc, repairVars, renderVars, composeVars, canvasVars>>

\* a question line: the in-progress Question is appended, a new one opened
OpenQuestion ==
    /\ ParserAt("question")
    /\ questions' = Flush(questions, current)
    /\ current' = [ number |-> q_match(strip(plines[pidx])).number,
                    content |-> q_match(strip(plines[pidx])).content,
                    options |-> <<>>,
                    answer |-> <<>> ]
    /\ pidx' = pidx + 1
    /\ UNCHANGED <<plines, ppc, repairVars, renderVars, composeVars, canvasVars>>

\* an option line while a Question is open
AppendOption ==
    /\ ParserAt("option")
    /\ current' = [current EXCEPT !.options = Append(@, strip(plines[pidx]))]
    /\ pidx' = pidx + 1
    /\ UNCHANGED <<plines, questions, ppc, repairVars, renderVars, composeVars, canvasVars>>

\* an answer line while a Question is open
SetAnswer ==
    /\ ParserAt("answer")
    /\ current' = [current EXCEPT !.answer = answer_of(strip(plines[pidx]))]
    /\ pidx' = pidx + 1
    /\ UNCHANGED <<plines, questions, ppc, repairVars, renderVars, composeVars, canvasVars>>

\* an option line with no Question open starts a Question that holds it
IgnoreLineDetached ==
    /\ ParserAt("other")
    /\ current' = ( IF current = NoQuestion /\ MatchOption(strip(plines[pidx]))
                    THEN [ number |-> <<>>, content |-> <<>>,
                           options |-> <<strip(plines[pidx])>>, answer |-> <<>> ]
                    ELSE current )
    /\ pidx' = pidx + 1
    /\ UNCHANGED <<plines, questions, ppc, repairVars, renderVars, composeVars, canvasVars>>

\* any other line falls through the loop body
IgnoreLine ==
    /\ ParserAt("other")
    /\ pidx' = pidx + 1
    /\ UNCHANGED <<plines, current, questions, ppc, repairVars, renderVars, composeVars, canvasVars>>

\* the end of the loop: the last in-progress Question is appended
FinishParse ==
    /\ ppc = "scan"
    /\ pidx > Len(plines)
    /\ questions' = Flush(questions, current)
    /\ ppc' = "done"
    /\ UNCHANGED <<plines, pidx, current, repairVars, renderVars, composeVars, canvasVars>>

(***************************************************************************)
(* generate_mcq_text, and correct_output applied a second time             *)
(***************************************************************************)
\* generate_mcq_text from `text = response.text or ""` on, for a language
\* of the strict list: the text goes through correct_output.
GenerateStrict(l) ==
    /\ rstage = "raw"
    /\ l \in STRICT_LANGUAGES
    /\ lang' = l
    /\ optLines' = (IF raw = <<>> THEN <<>> ELSE FixMarkerLines(<<>>, splitlines(raw)))
    /\ ansIn' = splitlines(fix_missing_option_markers(raw))
    /\ ansLines' = FixAnswerLines(splitlines(fix_missing_option_markers(raw)))
    /\ text' = correct_output(raw, l)
    /\ rstage' = "generated"
    /\ UNCHANGED <<raw, again, parseVars, renderVars, composeVars, canvasVars>>

\* generate_mcq_text for any other language: the text is returned as it is.
GeneratePlain(l) ==
    /\ rstage = "raw"
    /\ l \notin STRICT_LANGUAGES
    /\ lang' = l
    /\ text' = raw
    /\ rstage' = "generated"
    /\ UNCHANGED <<raw, optLines, ansIn, ansLines, again, parseVars, renderVars, composeVars, canvasVars>>

\* correct_output applied to its own result
CorrectAgain ==
    /\ rstage = "generated"
    /\ lang \in STRICT_LANGUAGES
    /\ again' = correct_output(text, lang)
    /\ rstage' = "again"
    /\ UNCHANGED <<raw, lang, optLines, ansIn, ansLines, text, parseVars, renderVars, composeVars, canvasVars>>

(***************************************************************************)
(* run_mcq_pipeline and save_pdf                                           *)
(***************************************************************************)
MaxClock == 1

Procs == {1, 2}
SafeNames == {"custom_text", "notes"}
NoFile == [by |-> 0, renderer |-> "none", state |-> "absent"]
NoPath == <<>>

\* f"mcqs_{safe_name}_{language.lower()}_{timestamp}.pdf", the time in seconds
pdf_name(safe_name, language, timestamp) == <<safe_name, language, timestamp>>

\* font_map of save_pdf: the languages that name a font file
HasFontFile(l) == l \in {"telugu", "hindi", "odia"}

PrimarySteps == {"pw_mkdtemp", "pw_launch", "pw_pdf", "pw_writing", "pw_close"}
FallbackSteps == {"fb_font", "fb_draw", "fb_save", "fb_writing"}

File(p, renderer, state) == [by |-> p, renderer |-> renderer, state |-> state]

\* the file at a path of the output directory
FileAt(path) == IF path \in DOMAIN fs THEN fs[path] ELSE NoFile

\* open(path, "wb") and what is written since: the file at path is replaced
Write(path, file) ==
    [q \in DOMAIN fs \cup {path} |-> IF q = path THEN file ELSE fs[q]]

\* time passes between and during invocations
Tick ==
    /\ clock < MaxClock
    /\ clock' = clock + 1
    /\ UNCHANGED <<pc, outpath, fs, tmpdirs, outcome, fontOnDisk, repairVars, parseVars, composeVars, canvasVars>>

\* a primary renderer whose exception is not caught
AfterPrimaryNoFallback(result) == IF result = "ok" THEN "returned" ELSE "raised"

\* save_pdf's try/except around the primary renderer: `return True` when
\* asyncio.run returns, the fallback section when it raises an Exception.
AfterPrimary(result) == IF result = "ok" THEN "returned" ELSE "fb_font"

\* a fallback section whose exception is swallowed
AfterFallbackSwallowed(result) == "returned"

\* the fallback section has no handler: `return True` at its end, and an
\* exception raised in it leaves save_pdf and run_mcq_pipeline.
AfterFallback(result) == IF result = "ok" THEN "returned" ELSE "raised"

\* run_mcq_pipeline up to the call of save_pdf, and save_pdf up to the try
RunPipeline(p, safe_name, l) ==
    /\ pc[p] = "idle"
    /\ outpath' = [outpath EXCEPT ![p] = pdf_name(safe_name, l, clock)]
    /\ pc' = [pc EXCEPT ![p] = "pw_mkdtemp"]
    /\ UNCHANGED <<fs, tmpdirs, outcome, clock, fontOnDisk, repairVars, parseVars, composeVars, canvasVars>>

\* render_pdf_playwright: tempfile.mkdtemp() and the html file written in it
PwMkdtemp(p) ==
    /\ pc[p] = "pw_mkdtemp"
    /\ tmpdirs' = tmpdirs \cup {p}
    /\ pc' = [pc EXCEPT ![p] = "pw_launch"]
    /\ UNCHANGED <<outpath, fs, outcome, clock, fontOnDisk, repairVars, parseVars, composeVars, canvasVars>>

\* async_playwright(), chromium.launch(), new_page(), goto()
PwLaunch(p) ==
    /\ pc[p] = "pw_launch"
    /\ pc' = [pc EXCEPT ![p] = "pw_pdf"]
    /\ UNCHANGED <<outpath, fs, tmpdirs, outcome, clock, fontOnDisk, repairVars, parseVars, composeVars, canvasVars>>

\* page.pdf(path=str(output_path)): the file is opened at the output path
PwPdfOpen(p) ==
    /\ pc[p] = "pw_pdf"
    /\ fs' = Write(outpath[p], File(p, "primary", "partial"))
    /\ pc' = [pc EXCEPT ![p] = "pw_writing"]
    /\ UNCHANGED <<outpath, tmpdirs, outcome, clock, fontOnDisk, repairVars, parseVars, composeVars, canvasVars>>

\* page.pdf: the bytes are written and the file closed
PwPdfWritten(p) ==
    /\ pc[p] = "pw_writing"
    /\ fs' = Write(outpath[p], File(p, "primary", "complete"))
    /\ pc' = [pc EXCEPT ![p] = "pw_close"]
    /\ UNCHANGED <<outpath, tmpdirs, outcome, clock, fontOnDisk, repairVars, parseVars, composeVars, canvasVars>>

\* browser.close(), the end of render_pdf_playwright, `return True`
PwClose(p) ==
    /\ pc[p] = "pw_close"
    /\ outcome' = [outcome EXCEPT ![p].primary = "ok"]
    /\ pc' = [pc EXCEPT ![p] = AfterPrimary("ok")]
    /\ UNCHANGED <<outpath, fs, tmpdirs, clock, fontOnDisk, repairVars, parseVars, composeVars, canvasVars>>

\* any await of render_pdf_playwright raises: `except Exception` of save_pdf
PrimaryRaises(p) ==
    /\ pc[p] \in PrimarySteps \ {"pw_mkdtemp"}
    /\ outcome' = [outcome EXCEPT ![p].primary = "error"]
    /\ pc' = [pc EXCEPT ![p] = AfterPrimary("error")]
    /\ UNCHANGED <<outpath, fs, tmpdirs, clock, fontOnDisk, repairVars, parseVars, composeVars, canvasVars>>

\* font_map lookup; registerFont when the font file exists, else Helvetica
FbFont(p) ==
    /\ pc[p] = "fb_font"
    /\ pc' = [pc EXCEPT ![p] = "fb_draw"]
    /\ UNCHANGED <<outpath, fs, tmpdirs, outcome, clock, fontOnDisk, repairVars, parseVars, composeVars, canvasVars>>

\* canvas.Canvas(...), setFont and the drawString loop, all in memory
FbDraw(p) ==
    /\ pc[p] = "fb_draw"
    /\ pc' = [pc EXCEPT ![p] = "fb_save"]
    /\ UNCHANGED <<outpath, fs, tmpdirs, outcome, clock, fontOnDisk, repairVars, parseVars, composeVars, canvasVars>>

\* c.save(): the file is opened at the output path
FbSaveOpen(p) ==
    /\ pc[p] = "fb_save"
    /\ fs' = Write(outpath[p], File(p, "fallback", "partial"))
    /\ pc' = [pc EXCEPT ![p] = "fb_writing"]
    /\ UNCHANGED <<outpath, tmpdirs, outcome, clock, fontOnDisk, repairVars, parseVars, composeVars, canvasVars>>

\* c.save() ends, `return True`
FbSaved(p) ==
    /\ pc[p] = "fb_writing"
    /\ fs' = Write(outpath[p], File(p, "fallback", "complete"))
    /\ outcome' = [outcome EXCEPT ![p].fallback = "ok"]
    /\ pc' = [pc EXCEPT ![p] = AfterFallback("ok")]
    /\ UNCHANGED <<outpath, tmpdirs, clock, fontOnDisk, repairVars, parseVars, composeVars, canvasVars>>

\* the fallback section raises: TTFont/registerFont on a font file that is
\* there, a canvas call, or the write of c.save()
FallbackRaises(p) ==
    /\ \/ pc[p] = "fb_font" /\ HasFontFile(outpath[p][2]) /\ fontOnDisk
       \/ pc[p] \in {"fb_draw", "fb_save", "fb_writing"}
    /\ outcome' = [outcome EXCEPT ![p].fallback = "error"]
    /\ pc' = [pc EXCEPT ![p] = AfterFallback("error")]
    /\ UNCHANGED <<outpath, fs, tmpdirs, clock, fontOnDisk, repairVars, parseVars, composeVars, canvasVars>>

Step(p) ==
    \/ \E n \in SafeNames, l \in LANG_DISPLAY : RunPipeline(p, n, l)
    \/ PwMkdtemp(p)
    \/ PwLaunch(p)
    \/ PwPdfOpen(p)
    \/ PwPdfWritten(p)
    \/ PwClose(p)
    \/ PrimaryRaises(p)
    \/ FbFont(p)
    \/ FbDraw(p)
    \/ FbSaveOpen(p)
    \/ FbSaved(p)
    \/ FallbackRaises(p)

(***************************************************************************)
(* The canvas loops. Lengths are in 1/1000 point: A4 is 841.8898 points    *)
(* high (reportlab.lib.pagesizes.A4).                                      *)
(***************************************************************************)
A4_HEIGHT == 841890

\* the fallback section of save_pdf: y = height - 60, `if y < 60`,
\* line[:150], y -= 18
FB_MARGIN == 60000
FB_LINE_STEP == 18000
FB_MAX_CHARS == 150

\* s[:n]
prefix(s, n) == SubSeq(s, 1, IF Len(s) < n THEN Len(s) ELSE n)

\* s[n:]
suffix(s, n) == SubSeq(s, n + 1, Len(s))

\* a loop that never starts a new page
NeverBelow(y, margin) == FALSE

\* `if y < 60`
Below(y, margin) == y < margin

\* c.drawString(x, y, s) on the page being drawn
drawString(page, y, s) == Append(page, [y |-> y, s |-> s])

\* one iteration of the loop of the fallback section, the cursor on the page:
\* the line is drawn, cut to 150 characters, and the cursor goes down a line
DrawLine ==
    /\ dpc = "loop"
    /\ didx <= Len(dlines)
    /\ ~Below(dy, FB_MARGIN)
    /\ dpage' = drawString(dpage, dy, prefix(dlines[didx], FB_MAX_CHARS))
    /\ dy' = dy - FB_LINE_STEP
    /\ didx' = didx + 1
    /\ UNCHANGED <<dlines, drest, dpages, dpc,
                   repairVars, parseVars, renderVars, composeVars>>

\* one iteration with the cursor below the margin: showPage, the cursor back
\* at the top, then the line is drawn
DrawLineOnNewPage ==
    /\ dpc = "loop"
    /\ didx <= Len(dlines)
    /\ Below(dy, FB_MARGIN)
    /\ dpages' = Append(dpages, dpage)
    /\ dpage' = drawString(<<>>, A4_HEIGHT - FB_MARGIN, prefix(dlines[didx], FB_MAX_CHARS))
    /\ dy' = A4_HEIGHT - FB_MARGIN - FB_LINE_STEP
    /\ didx' = didx + 1
    /\ UNCHANGED <<dlines, drest, dpc,
                   repairVars, parseVars, renderVars, composeVars>>

\* c.save() after the loop: the page being drawn ends the document
CanvasSave ==
    /\ dpc = "loop"
    /\ didx > Len(dlines)
    /\ dpages' = Append(dpages, dpage)
    /\ dpage' = <<>>
    /\ dpc' = "saved"
    /\ UNCHANGED <<dlines, didx, drest, dy,
                   repairVars, parseVars, renderVars, composeVars>>

(***************************************************************************)
(* save_pdf up to the renderers: parse_mcq_text as a function of the text, *)
(* clean_text_html, build_html_document and the two font lookups           *)
(***************************************************************************)
\* one iteration of the loop of parse_mcq_text, on the pair (current, questions)
ParseLine(st, line) ==
    LET stripped == strip(line) IN
    IF stripped = <<>> THEN st
    ELSE IF q_match(stripped).ok
         THEN [ questions |-> Flush(st.questions, st.current),
                current |-> [ number |-> q_match(stripped).number,
                              content |-> q_match(stripped).content,
                              options |-> <<>>,
                              answer |-> <<>> ] ]
    ELSE IF st.current # NoQuestion /\ MatchOption(stripped)
         THEN [st EXCEPT !.current.options = Append(@, stripped)]
    ELSE IF st.current # NoQuestion
            /\ startswith(lower(stripped), <<"a", "n", "s", "w", "e", "r">>)
         THEN [st EXCEPT !.current.answer = answer_of(stripped)]
    ELSE st

RECURSIVE ParseLines(_, _)
ParseLines(st, lines) ==
    IF lines = <<>> THEN st ELSE ParseLines(ParseLine(st, Head(lines)), Tail(lines))

parse_mcq_text(t) ==
    IF t = <<>> THEN <<>>
    ELSE LET st == ParseLines([current |-> NoQuestion, questions |-> <<>>], splitlines(t))
         IN  Flush(st.questions, st.current)

\* str.replace(old, new): the occurrences of old from the left, not overlapping
RECURSIVE replace(_, _, _)
replace(s, old, new) ==
    IF s = <<>> THEN <<>>
    ELSE IF startswith(s, old) THEN new \o replace(SubSeq(s, Len(old) + 1, Len(s)), old, new)
    ELSE <<Head(s)>> \o replace(Tail(s), old, new)

Amp == <<"&", "a", "m", "p", ";">>
Lt == <<"&", "l", "t", ";">>
Gt == <<"&", "g", "t", ";">>
Quot == <<"&", "q", "u", "o", "t", ";">>
Apos == <<"&", "#", "x", "2", "7", ";">>

\* html.escape(s), quote=True: '&' first, then '<', '>', '"' and "'"
html_escape(s) ==
    replace(replace(replace(replace(replace(s, <<"&">>, Amp), <<"<">>, Lt),
                            <<">">>, Gt), <<"\"">>, Quot), <<"'">>, Apos)

\* html.escape and strip(), the three entities left as html.escape wrote them
html_escape_strip(value) ==
    IF value = <<>> THEN <<>> ELSE strip(html_escape(value))

\* clean_text_html: html.escape, then '&lt;', '&gt;' and '&amp;' are put
\* back to '<', '>' and '&', then strip()
clean_text_html(value) ==
    IF value = <<>> THEN <<>>
    ELSE strip(replace(replace(replace(html_escape(value), Lt, <<"<">>), Gt, <<">">>),
                       Amp, <<"&">>))

English == <<"e", "n", "g", "l", "i", "s", "h">>
Telugu == <<"t", "e", "l", "u", "g", "u">>
Hindi == <<"h", "i", "n", "d", "i">>
Odia == <<"o", "d", "i", "a">>

\* the keys of LANG_DISPLAY, as texts
LangKeys == {English, Telugu, Hindi, Odia}

\* ensure_supported_language
ensure_supported_language(language) ==
    LET normalized == lower(strip(language)) IN
    IF normalized \notin LangKeys THEN English ELSE normalized

\* font_map.get(language) of build_html_document
font_file_of(language) ==
    CASE language = Telugu -> "NotoSansTelugu-Regular.ttf"
      [] language = Hindi -> "TiroDevanagariHindi-Regular.ttf"
      [] language = Odia -> "NotoSansOriya-Regular.ttf"
      [] OTHER -> None

\* the font of the document: the font file when the table names one and
\* the file exists, else None (body_font stays "Arial, sans-serif")
html_font(language) ==
    IF font_file_of(language) # None /\ fontOnDisk THEN font_file_of(language) ELSE None

\* font_map.get(lang, ("Helvetica", None)) of save_pdf and what follows:
\* the font name when its file exists, else "Helvetica"
fallback_font(language) ==
    LET font_name == CASE language = Telugu -> "NotoSansTelugu"
                       [] language = Hindi -> "TiroDevanagariHindi"
                       [] language = Odia -> "NotoSansOriya"
                       [] OTHER -> "Helvetica"
    IN  IF font_file_of(language) # None /\ fontOnDisk THEN font_name ELSE "Helvetica"

\* the block of one Question: the <ul> only when there are options, the
\* answer <div> only when the answer is not empty
question_block(q) ==
    [ tag |-> "question",
      number |-> clean_text_html(q.number),
      content |-> clean_text_html(q.content),
      ul |-> q.options # <<>>,
      options |-> [i \in 1..Len(q.options) |-> clean_text_html(q.options[i])],
      has_answer |-> q.answer # <<>>,
      answer |-> clean_text_html(q.answer) ]

IsLetter(c) == \E i \in 1..26 : c = LowerAZ[i] \/ c = UpperAZ[i]

Upper(c) ==
    IF \E i \in 1..26 : c = LowerAZ[i] THEN UpperAZ[CHOOSE i \in 1..26 : c = LowerAZ[i]] ELSE c

\* str.title(): a letter after a character that is no letter in upper
\* case, a letter after a letter in lower case
title(s) ==
    [i \in 1..Len(s) |-> IF i = 1 \/ ~IsLetter(s[i - 1]) THEN Upper(s[i]) ELSE Lower(s[i])]

\* LANG_DISPLAY.get(language, language.title())
display_name(language) ==
    CASE language = English -> <<"E", "n", "g", "l", "i", "s", "h">>
      [] language = Telugu -> <<"T", "e", "l", "u", "g", "u">>
      [] language = Hindi -> <<"H", "i", "n", "d", "i">>
      [] language = Odia -> <<"O", "d", "i", "a">>
      [] OTHER -> title(language)

\* "Generated MCQs - "
TitleHead ==
    <<"G", "e", "n", "e", "r", "a", "t", "e", "d", " ", "M", "C", "Q", "s", " ", "-", " ">>

\* build_html_document: the font, the <h1> title, and the body as its
\* sequence of blocks
build_html_document(qs, language, raw_text) ==
    [ font |-> html_font(language),
      title |-> TitleHead \o display_name(language),
      body |-> IF qs # <<>>
               THEN [i \in 1..Len(qs) |-> question_block(qs[i])]
               ELSE << [tag |-> "pre", text |-> clean_text_html(raw_text)] >> ]

\* the texts of a block put through clean_text_html once more
reclean(b) ==
    IF b.tag = "pre" THEN [b EXCEPT !.text = clean_text_html(@)]
    ELSE [b EXCEPT !.number = clean_text_html(@),
                   !.content = clean_text_html(@),
                   !.options = [i \in 1..Len(@) |-> clean_text_html(@[i])],
                   !.answer = clean_text_html(@)]

\* save_pdf(text, outpath, lang) up to the try: the text is parsed and the
\* document built, for the language as save_pdf received it
SavePdf(language) ==
    /\ questions' = parse_mcq_text(srctext)
    /\ document' = build_html_document(parse_mcq_text(srctext), language, srctext)
    /\ cpc' = "built"
    /\ UNCHANGED <<srctext, given, redocument, fbfont, fbdrawn, plines, pidx, current, ppc,
                   repairVars, renderVars, canvasVars>>

\* run_mcq_pipeline: save_pdf(mcq_text, out_path, ensure_supported_language(language))
ViaPipeline ==
    /\ cpc = "start"
    /\ entry' = "run_mcq_pipeline"
    /\ SavePdf(ensure_supported_language(given))

\* save_pdf called with the language as the caller spelled it
Direct ==
    /\ cpc = "start"
    /\ entry' = "save_pdf"
    /\ SavePdf(given)

\* the language save_pdf of this run received
lang_received ==
    IF entry = "run_mcq_pipeline" THEN ensure_supported_language(given) ELSE given

\* the fallback section of save_pdf, up to the font it draws with
FallbackFont ==
    /\ cpc \in {"built", "again"}
    /\ fbfont = None
    /\ fbfont' = fallback_font(lang_received)
    /\ UNCHANGED <<srctext, given, entry, document, redocument, fbdrawn, cpc,
                   parseVars, repairVars, renderVars, canvasVars>>

\* the end of the first '**...**' that starts at i: the closest '**' from
\* i + 2 on with no line break before it (0: none)
BoldEnd(t, i) ==
    LET J == {j \in (i + 2)..(Len(t) - 1) :
                 /\ t[j] = "*" /\ t[j + 1] = "*"
                 /\ \A k \in (i + 2)..(j - 1) : t[k] # NL}
    IN  IF J = {} THEN 0 ELSE CHOOSE j \in J : \A k \in J : j <= k

\* the text from i on with its matches replaced by their group: what stands
\* before the first match from i on, its group, then the text after it
RECURSIVE BoldFrom(_, _)
BoldFrom(t, i) ==
    LET S == {j \in i..(Len(t) - 1) :
                 t[j] = "*" /\ t[j + 1] = "*" /\ BoldEnd(t, j) # 0}
    IN  IF S = {} THEN SubSeq(t, i, Len(t))
        ELSE LET a == CHOOSE j \in S : \A k \in S : j <= k
             IN  SubSeq(t, i, a - 1) \o SubSeq(t, a + 2, BoldEnd(t, a) - 1)
                     \o BoldFrom(t, BoldEnd(t, a) + 2)

\* re.sub(r"\*\*(.*?)\*\*", r"\1", text)
strip_bold(t) == BoldFrom(t, 1)

\* the fallback section of save_pdf from clean_text to c.save(): every line
\* of clean_text is drawn, cut to 150 characters
FallbackDraw ==
    /\ cpc \in {"built", "again"}
    /\ fbfont # None
    /\ fbdrawn = NoDrawing
    /\ fbdrawn' = [ items |-> [i \in 1..Len(splitlines(strip_bold(srctext)))
                                   |-> prefix(splitlines(strip_bold(srctext))[i], FB_MAX_CHARS)] ]
    /\ UNCHANGED <<srctext, given, entry, document, redocument, fbfont, cpc,
                   parseVars, repairVars, renderVars, canvasVars>>

\* the texts of the document go through the composer's escaping again
ComposeAgain ==
    /\ cpc = "built"
    /\ redocument' = [document EXCEPT !.body = [i \in 1..Len(@) |-> reclean(@[i])]]
    /\ cpc' = "again"
    /\ UNCHANGED <<srctext, given, entry, document, fbfont, fbdrawn,
                   parseVars, repairVars, renderVars, canvasVars>>

(***************************************************************************)
(* generate.save_pdf, the canvas writer of the Streamlit app                *)
(***************************************************************************)
EmDash == "<em-dash>"
EnDash == "<en-dash>"

\* y = height - 80, `if y < 60`, y -= 15 for an empty line, y -= 20 for a
\* drawn line, max_chars_per_line = 85
GEN_TOP_OFFSET == 80000
GEN_MARGIN == 60000
GEN_BLANK_STEP == 15000
GEN_LINE_STEP == 20000
GEN_MAX_CHARS == 85

\* str.split("\n"): one line more than the text has line breaks, the k-th
\* from after the (k-1)-th break up to the k-th
split(t) ==
    LET B == {i \in 1..Len(t) : t[i] = NL}
        brk(k) == IF k = 0 THEN 0
                  ELSE IF k > Cardinality(B) THEN Len(t) + 1
                  ELSE CHOOSE b \in B : Cardinality({c \in B : c < b}) = k - 1
    IN  [k \in 1..(Cardinality(B) + 1) |-> SubSeq(t, brk(k - 1) + 1, brk(k) - 1)]

\* str.replace(old, new) for one character each
replace_char(s, old, new) == [i \in 1..Len(s) |-> IF s[i] = old THEN new ELSE s[i]]

\* clean_text of generate.save_pdf: the bold markers removed, the long
\* dashes replaced by '-'
gen_clean_text(t) ==
    replace_char(replace_char(strip_bold(t), EmDash, "-"), EnDash, "-")

\* the line the loop works on: line.strip() at the head of the for loop,
\* line[85:] inside the while loop
GenLine == IF dpc = "while" THEN drest ELSE strip(dlines[didx])

\* `if y < 60: c.showPage(); y = height - 80` on the page being drawn
GenPageCheck(page, y) ==
    IF Below(y, GEN_MARGIN)
    THEN /\ dpages' = Append(dpages, page)
         /\ dpage' = <<>>
         /\ dy' = A4_HEIGHT - GEN_TOP_OFFSET
    ELSE /\ dpages' = dpages
         /\ dpage' = page
         /\ dy' = y

\* an empty line: the cursor goes down, `continue` skips the page check
GenBlank ==
    /\ dpc = "gen"
    /\ didx <= Len(dlines)
    /\ strip(dlines[didx]) = <<>>
    /\ dy' = dy - GEN_BLANK_STEP
    /\ didx' = didx + 1
    /\ UNCHANGED <<dlines, drest, dpage, dpages, dpc,
                   repairVars, parseVars, renderVars, composeVars>>

\* one iteration of the while loop: the first 85 characters are drawn, the
\* cursor goes down a line, the rest stays, then the page check
GenPart ==
    /\ dpc \in {"gen", "while"}
    /\ didx <= Len(dlines)
    /\ Len(GenLine) > GEN_MAX_CHARS
    /\ drest' = suffix(GenLine, GEN_MAX_CHARS)
    /\ GenPageCheck(drawString(dpage, dy, prefix(GenLine, GEN_MAX_CHARS)),
                    dy - GEN_LINE_STEP)
    /\ dpc' = "while"
    /\ UNCHANGED <<dlines, didx,
                   repairVars, parseVars, renderVars, composeVars>>

\* the end of an iteration of the for loop: what is left of the line is
\* drawn if it is not empty, then the page check
GenTail ==
    /\ dpc \in {"gen", "while"}
    /\ didx <= Len(dlines)
    /\ Len(GenLine) <= GEN_MAX_CHARS
    /\ dpc = "gen" => GenLine # <<>>
    /\ IF GenLine # <<>>
       THEN GenPageCheck(drawString(dpage, dy, GenLine), dy - GEN_LINE_STEP)
       ELSE GenPageCheck(dpage, dy)
    /\ drest' = <<>>
    /\ didx' = didx + 1
    /\ dpc' = "gen"
    /\ UNCHANGED <<dlines, repairVars, parseVars, renderVars, composeVars>>

\* c.save() after the loop
GenSave ==
    /\ dpc = "gen"
    /\ didx > Len(dlines)
    /\ dpages' = Append(dpages, dpage)
    /\ dpage' = <<>>
    /\ dpc' = "gsaved"
    /\ UNCHANGED <<dlines, didx, drest, dy,
                   repairVars, parseVars, renderVars, composeVars>>

(***************************************************************************)
(* Inputs of the repair engine                                             *)
(***************************************************************************)
MaxTextLen == 4
MaxMarkerLines == 5
MaxAnswerLines == 2

SeqsUpTo(S, n) == UNION {[1..k -> S] : k \in 0..n}

RepairAlphabet == {"1", ".", " ", "A", ")", NL}

\* "1. Q?", "A) 3", ") 4", " )4"
MarkerLinePool ==
    { <<"1", ".", " ", "Q", "?">>, <<"A", ")", " ", "3">>,
      <<")", " ", "4">>, <<" ", ")", "4">> }

\* a label alone, in three letter cases, with and without the colon, and
\* two lines that are no bare label ("Answer: B", "Answer.")
AnswerLinePool ==
    { <<"A", "n", "s", "w", "e", "r", ":">>, <<"a", "n", "s", "w", "e", "r">>,
      <<"A", "N", "S", "W", "E", "R", ":">>, <<" ", "A", "n", "s", "w", "e", "r", " ">>,
      <<UttarHi, ":">>, <<UttarHi>>, <<UttarOr, ":">>, <<UttarOr>>,
      <<"A", "n", "s", "w", "e", "r", ":", " ", "B">>,
      <<"A", "n", "s", "w", "e", "r", ".">> }

\* "1. Q?", "B) 4", ") 4": options that do not start at the letter A
MaxSkipLines == 3

SkipLinePool ==
    { <<"1", ".", " ", "Q", "?">>, <<"B", ")", " ", "4">>, <<")", " ", "4">> }

RawTexts ==
    SeqsUpTo(RepairAlphabet, MaxTextLen)
      \cup {join(ls) : ls \in SeqsUpTo(MarkerLinePool, MaxMarkerLines)}
      \cup {join(ls) : ls \in SeqsUpTo(SkipLinePool, MaxSkipLines)}
      \cup {join(ls) : ls \in SeqsUpTo(AnswerLinePool, MaxAnswerLines)}

(***************************************************************************)
(* Inputs of save_pdf                                                      *)
(***************************************************************************)
MaxEscTokens == 3
MaxComposeLines == 3

RECURSIVE Flatten(_)
Flatten(ss) == IF ss = <<>> THEN <<>> ELSE Head(ss) \o Flatten(Tail(ss))

\* the reserved characters, the tails of their entities, a space and a letter
EscTokens ==
    { <<"&">>, <<"<">>, <<">">>, <<"\"">>, <<"'">>,
      <<"a", "m", "p", ";">>, <<"l", "t", ";">>, <<"q", "u", "o", "t", ";">>,
      <<" ">>, <<"x">> }

\* "1. a<b?", "A) "x"", "Answer: B&C", " note", "<b>", "**b**"
ComposeLinePool ==
    { <<"1", ".", " ", "a", "<", "b", "?">>,
      <<"*", "*", "b", "*", "*">>,
      <<"A", ")", " ", "\"", "x", "\"">>,
      <<"A", "n", "s", "w", "e", "r", ":", " ", "B", "&", "C">>,
      <<" ", "n", "o", "t", "e">>,
      <<"<", "b", ">">> }

ComposeTexts ==
    {Flatten(ts) : ts \in SeqsUpTo(EscTokens, MaxEscTokens)}
      \cup {join(ls) : ls \in SeqsUpTo(ComposeLinePool, MaxComposeLines)}

\* "hindi", "Hindi", " hindi ", "telugu", "Odia", "english", "tamil", ""
LanguageSpellings ==
    { Hindi, <<"H", "i", "n", "d", "i">>, <<" ", "h", "i", "n", "d", "i", " ">>,
      Telugu, <<"O", "d", "i", "a">>, English, <<"t", "a", "m", "i", "l">>, <<>> }

\* the texts of the runs that vary the language
FontTexts ==
    { <<"x">>, <<"1", ".", " ", "a", "<", "b", "?", NL, "A", ")", " ", "x">> }

(***************************************************************************)
(* Inputs of the canvas loops                                              *)
(***************************************************************************)
MaxCanvasLines == 90

\* n times the character c
Rep(c, n) == [i \in 1..n |-> c]

\* the lines of a text of n lines: short lines and, in the kinds 2 and 3,
\* an empty line every fifth line and a line of 151 (152) characters every
\* seventh
CanvasLine(i, kind) ==
    IF kind >= 2 /\ i % 7 = 3 THEN Rep("w", FB_MAX_CHARS - 1 + kind)
    ELSE IF kind >= 2 /\ i % 5 = 0 THEN <<>>
    ELSE IF i % 2 = 0 THEN <<"A", ")", " ", "3">>
    ELSE <<"1", ".", " ", "Q", "?">>

CanvasTexts ==
    {[i \in 1..n |-> CanvasLine(i, kind)] : n \in 0..MaxCanvasLines, kind \in 1..3}

\* the texts given to generate.save_pdf: n lines 'Q?'; lines 'Q?' with an
\* empty line every fifth line, after a first line of 86 (87) characters; a
\* text line, a run of empty lines and a line between spaces; a line with
\* bold markers and long dashes
MaxGenLines == 45
MaxBlankRun == 50

ShortLines(n, blanks) ==
    [i \in 1..(3 * n) |->
        IF i % 3 = 0 THEN NL
        ELSE IF blanks /\ (i \div 3) % 5 = 4 THEN " "
        ELSE IF i % 3 = 1 THEN "Q" ELSE "?"]

GenTexts ==
    {ShortLines(n, FALSE) : n \in 0..MaxGenLines}
      \cup {Rep("w", GEN_MAX_CHARS + k) \o <<NL>> \o ShortLines(n, TRUE) :
               n \in 0..MaxGenLines, k \in 1..2}
      \cup {<<"Q", "?">> \o Rep(NL, n + 1) \o <<" ", "x", " ">> : n \in 0..MaxBlankRun}
      \cup { <<"*", "*", "b", "*", "*", EmDash, "c", EnDash, NL, " ", NL>> }

(***************************************************************************)
(* Inputs of the parser                                                    *)
(***************************************************************************)
MaxParseLines == 4

\* "1. What is 2+2?", "12.Why?", "A) 3", "B) 4", "Answer: B", "answer: B: c",
\* "note", ""
ParseLinePool ==
    { <<"1", ".", " ", "W", "h", "a", "t", " ", "i", "s", " ", "2", "+", "2", "?">>,
      <<"1", "2", ".", "W", "h", "y", "?">>,
      <<"A", ")", " ", "3">>, <<"B", ")", " ", "4">>,
      <<"A", "n", "s", "w", "e", "r", ":", " ", "B">>,
      <<"a", "n", "s", "w", "e", "r", ":", " ", "B", ":", " ", "c">>,
      <<"n", "o", "t", "e">>, <<>> }

\* "1. What is 2+2?", "2. x", "A) 3": a numbered line without question mark
MaxBoundaryLines == 3

BoundaryLinePool ==
    { <<"1", ".", " ", "W", "h", "a", "t", " ", "i", "s", " ", "2", "+", "2", "?">>,
      <<"2", ".", " ", "x">>, <<"A", ")", " ", "3">> }

ParseTexts ==
    SeqsUpTo(ParseLinePool, MaxParseLines)
      \cup SeqsUpTo(BoundaryLinePool, MaxBoundaryLines)

(***************************************************************************)
(* Specifications                                                          *)
(***************************************************************************)
\* the repair engine on a raw text
InitRepair ==
    /\ raw \in RawTexts
    /\ lang = None /\ optLines = <<>> /\ ansIn = <<>> /\ ansLines = <<>>
    /\ text = <<>> /\ again = <<>>
    /\ rstage = "raw"
    /\ plines = <<>> /\ pidx = 1 /\ current = NoQuestion /\ questions = <<>>
    /\ ppc = "idle"
    /\ pc = [p \in Procs |-> "idle"]
    /\ outpath = [p \in Procs |-> NoPath]
    /\ fs = <<>>
    /\ tmpdirs = {}
    /\ outcome = [p \in Procs |-> [primary |-> "none", fallback |-> "none"]]
    /\ clock = 0
    /\ fontOnDisk = FALSE
    /\ srctext = <<>> /\ given = <<>> /\ entry = None /\ document = NoDocument
    /\ redocument = NoDocument /\ fbfont = None /\ fbdrawn = NoDrawing
    /\ cpc = "idle"
    /\ dlines = <<>> /\ didx = 1 /\ drest = <<>> /\ dy = 0 /\ dpage = <<>>
    /\ dpages = <<>> /\ dpc = "idle"

NextRepair ==
    \/ \E l \in LANG_DISPLAY : GenerateStrict(l)
    \/ \E l \in LANG_DISPLAY : GeneratePlain(l)
    \/ CorrectAgain

SpecRepair == InitRepair /\ [][NextRepair]_vars

\* the parser on the lines of a text
InitParse ==
    /\ plines \in ParseTexts
    /\ pidx = 1 /\ current = NoQuestion /\ questions = <<>>
    /\ ppc = "scan"
    /\ raw = <<>> /\ lang = None /\ optLines = <<>> /\ ansIn = <<>>
    /\ ansLines = <<>> /\ text = <<>> /\ again = <<>> /\ rstage = "idle"
    /\ pc = [p \in Procs |-> "idle"]
    /\ outpath = [p \in Procs |-> NoPath]
    /\ fs = <<>>
    /\ tmpdirs = {}
    /\ outcome = [p \in Procs |-> [primary |-> "none", fallback |-> "none"]]
    /\ clock = 0
    /\ fontOnDisk = FALSE
    /\ srctext = <<>> /\ given = <<>> /\ entry = None /\ document = NoDocument
    /\ redocument = NoDocument /\ fbfont = None /\ fbdrawn = NoDrawing
    /\ cpc = "idle"
    /\ dlines = <<>> /\ didx = 1 /\ drest = <<>> /\ dy = 0 /\ dpage = <<>>
    /\ dpages = <<>> /\ dpc = "idle"

NextParse ==
    \/ SkipBlank
    \/ OpenQuestion
    \/ AppendOption
    \/ SetAnswer
    \/ IgnoreLine
    \/ FinishParse

SpecParse == InitParse /\ [][NextParse]_vars

\* save_pdf and run_mcq_pipeline: an empty output directory
InitRender ==
    /\ pc = [p \in Procs |-> "idle"]
    /\ outpath = [p \in Procs |-> NoPath]
    /\ fs = <<>>
    /\ tmpdirs = {}
    /\ outcome = [p \in Procs |-> [primary |-> "none", fallback |-> "none"]]
    /\ clock = 0
    /\ fontOnDisk \in BOOLEAN
    /\ raw = <<>> /\ lang = None /\ optLines = <<>> /\ ansIn = <<>>
    /\ ansLines = <<>> /\ text = <<>> /\ again = <<>> /\ rstage = "idle"
    /\ plines = <<>> /\ pidx = 1 /\ current = NoQuestion /\ questions = <<>>
    /\ ppc = "idle"
    /\ srctext = <<>> /\ given = <<>> /\ entry = None /\ document = NoDocument
    /\ redocument = NoDocument /\ fbfont = None /\ fbdrawn = NoDrawing
    /\ cpc = "idle"
    /\ dlines = <<>> /\ didx = 1 /\ drest = <<>> /\ dy = 0 /\ dpage = <<>>
    /\ dpages = <<>> /\ dpc = "idle"

\* one invocation
NextSave == Tick \/ Step(1)

\* two invocations, interleaved in any order
NextPipeline == Tick \/ \E p \in Procs : Step(p)

SpecSave == InitRender /\ [][NextSave]_vars
SpecPipeline == InitRender /\ [][NextPipeline]_vars

\* save_pdf on a text and a language: the body of the document does not
\* read the language, so the texts vary under one language and the
\* languages under two texts
InitCompose ==
    /\ \/ srctext \in ComposeTexts /\ given = Hindi /\ fontOnDisk = TRUE
       \/ srctext \in FontTexts /\ given \in LanguageSpellings /\ fontOnDisk \in BOOLEAN
    /\ entry = None /\ document = NoDocument /\ redocument = NoDocument
    /\ fbfont = None /\ fbdrawn = NoDrawing /\ cpc = "start"
    /\ raw = <<>> /\ lang = None /\ optLines = <<>> /\ ansIn = <<>>
    /\ ansLines = <<>> /\ text = <<>> /\ again = <<>> /\ rstage = "idle"
    /\ plines = <<>> /\ pidx = 1 /\ current = NoQuestion /\ questions = <<>>
    /\ ppc = "idle"
    /\ pc = [p \in Procs |-> "idle"]
    /\ outpath = [p \in Procs |-> NoPath]
    /\ fs = <<>>
    /\ tmpdirs = {}
    /\ outcome = [p \in Procs |-> [primary |-> "none", fallback |-> "none"]]
    /\ clock = 0
    /\ dlines = <<>> /\ didx = 1 /\ drest = <<>> /\ dy = 0 /\ dpage = <<>>
    /\ dpages = <<>> /\ dpc = "idle"

NextCompose ==
    \/ ViaPipeline
    \/ Direct
    \/ FallbackFont
    \/ FallbackDraw
    \/ ComposeAgain

SpecCompose == InitCompose /\ [][NextCompose]_vars

\* the fallback section of save_pdf from `c.setFont(font_name, 12)` on, on
\* the lines of clean_text
InitFallback ==
    /\ dlines \in CanvasTexts
    /\ didx = 1 /\ drest = <<>> /\ dy = A4_HEIGHT - FB_MARGIN /\ dpage = <<>>
    /\ dpages = <<>> /\ dpc = "loop"
    /\ raw = <<>> /\ lang = None /\ optLines = <<>> /\ ansIn = <<>>
    /\ ansLines = <<>> /\ text = <<>> /\ again = <<>> /\ rstage = "idle"
    /\ plines = <<>> /\ pidx = 1 /\ current = NoQuestion /\ questions = <<>>
    /\ ppc = "idle"
    /\ pc = [p \in Procs |-> "idle"]
    /\ outpath = [p \in Procs |-> NoPath]
    /\ fs = <<>>
    /\ tmpdirs = {}
    /\ outcome = [p \in Procs |-> [primary |-> "none", fallback |-> "none"]]
    /\ clock = 0
    /\ fontOnDisk = FALSE
    /\ srctext = <<>> /\ given = <<>> /\ entry = None /\ document = NoDocument
    /\ redocument = NoDocument /\ fbfont = None /\ fbdrawn = NoDrawing
    /\ cpc = "idle"

NextFallback ==
    \/ DrawLine
    \/ DrawLineOnNewPage
    \/ CanvasSave

SpecFallback == InitFallback /\ [][NextFallback]_vars

\* generate.save_pdf on a text
InitGenerate ==
    /\ dlines \in {split(gen_clean_text(t)) : t \in GenTexts}
    /\ didx = 1 /\ drest = <<>> /\ dy = A4_HEIGHT - GEN_TOP_OFFSET /\ dpage = <<>>
    /\ dpages = <<>> /\ dpc = "gen"
    /\ raw = <<>> /\ lang = None /\ optLines = <<>> /\ ansIn = <<>>
    /\ ansLines = <<>> /\ text = <<>> /\ again = <<>> /\ rstage = "idle"
    /\ plines = <<>> /\ pidx = 1 /\ current = NoQuestion /\ questions = <<>>
    /\ ppc = "idle"
    /\ pc = [p \in Procs |-> "idle"]
    /\ outpath = [p \in Procs |-> NoPath]
    /\ fs = <<>>
    /\ tmpdirs = {}
    /\ outcome = [p \in Procs |-> [primary |-> "none", fallback |-> "none"]]
    /\ clock = 0
    /\ fontOnDisk = FALSE
    /\ srctext = <<>> /\ given = <<>> /\ entry = None /\ document = NoDocument
    /\ redocument = NoDocument /\ fbfont = None /\ fbdrawn = NoDrawing
    /\ cpc = "idle"

NextGenerate ==
    \/ GenBlank
    \/ GenPart
    \/ GenTail
    \/ GenSave

SpecGenerate == InitGenerate /\ [][NextGenerate]_vars

(***************************************************************************)
(* Claims on the repair engine (SpecRepair)                                *)
(***************************************************************************)
Repaired == rstage \in {"generated", "again"} /\ lang \in STRICT_LANGUAGES

\* the question-number line closest before line i of ls (0: none)
LastNumberLine(ls, i) ==
    LET Q == {j \in 1..(i - 1) : MatchNumberDot(strip(ls[j]))} IN
    IF Q = {} THEN 0 ELSE CHOOSE j \in Q : \A k \in Q : k <= j

\* well-formed option lines after that question-number line and before line i
OptionsSince(ls, i) ==
    Cardinality({j \in (LastNumberLine(ls, i) + 1)..(i - 1) : MatchOption(strip(ls[j]))})

LetterOf(k) == <<"A", "B", "C", "D">>[k + 1]

TruncatedMarker(line) ==
    LET s == strip(line) IN Len(s) > 1 /\ s[1] = ")"

\* C1: repair is idempotent: correct_output applied to its own result
\* returns that result, for every raw text and strict language.
C1_Idempotent == rstage = "again" => again = text

\* C8: marker recovery: a line whose trimmed form starts with ')' and goes
\* on, with k < 4 well-formed option lines between it and the closest
\* question-number line before it in the corrected lines, becomes the letter
\* chr('A' + k) followed by its trimmed form; ') 4' right after the single
\* option 'A) 3' of a question becomes 'B) 4'.
C8_MarkerRecovery ==
    Repaired =>
        LET lines == splitlines(raw) IN
        /\ Len(optLines) = Len(lines)
        /\ \A i \in 1..Len(lines) :
              (TruncatedMarker(lines[i]) /\ OptionsSince(optLines, i) < 4)
                  => optLines[i] = <<LetterOf(OptionsSince(optLines, i))>> \o strip(lines[i])
        /\ \A i \in 2..Len(lines) :
              ( /\ lines[i] = <<")", " ", "4">>
                /\ lines[i - 1] = <<"A", ")", " ", "3">>
                /\ (i = 2 \/ MatchNumberDot(lines[i - 2])) )
                  => optLines[i] = <<"B", ")", " ", "4">>

\* a truncated marker after a question-number line that itself follows an
\* option line: the count restarted, and the line got the letter B
C8_Witness ==
    /\ Repaired
    /\ \E i \in 4..Len(optLines) :
          /\ TruncatedMarker(splitlines(raw)[i])
          /\ LastNumberLine(optLines, i) = i - 2
          /\ \E j \in 1..(i - 3) : MatchOption(optLines[j])
          /\ optLines[i] = <<"B", ")", " ", "4">>

\* C9: repair never invents a fifth option letter: a truncated-marker line
\* with four (or more) well-formed option lines before it in its question
\* is left as it is, every line that repair rewrites starts with a letter
\* of A..D, and no line of the repaired text starts with 'E)'.
C9_NoFifthLetter ==
    Repaired =>
        LET lines == splitlines(raw) IN
        /\ Len(optLines) = Len(lines)
        /\ \A i \in 1..Len(lines) :
              /\ (TruncatedMarker(lines[i]) /\ OptionsSince(optLines, i) >= 4)
                    => optLines[i] = lines[i]
              /\ optLines[i] # lines[i]
                    => optLines[i][1] \in OptionLetters /\ Tail(optLines[i]) = strip(lines[i])
        /\ \A i \in 1..Len(splitlines(text)) :
              ~startswith(splitlines(text)[i], <<"E", ")">>)

C9_Witness ==
    /\ Repaired
    /\ \E i \in 1..Len(optLines) :
          /\ TruncatedMarker(splitlines(raw)[i])
          /\ OptionsSince(optLines, i) = 4
          /\ optLines[i] = splitlines(raw)[i]

\* a label alone: one of the three label words, in any letter case, with or
\* without the colon after it
LabelWords == { <<"a", "n", "s", "w", "e", "r">>, <<UttarHi>>, <<UttarOr>> }

BareLabel(line) ==
    LET s == lower(strip(line)) IN
    \E w \in LabelWords : s = w \/ s = w \o <<":">>

\* C10: every line that is an answer label with no value (Answer, the Hindi
\* and the Odia word, any letter case, with or without trailing punctuation)
\* is replaced by 'Answer: A'.
C10_AnswerPlaceholder ==
    Repaired =>
        \A i \in 1..Len(ansIn) : BareLabel(ansIn[i]) => ansLines[i] = AnswerA

\* C14: for a language other than hindi and odia the text returned by the
\* generation step is the raw text of the model, unchanged; for hindi and
\* odia it is correct_output of the raw text.
C14_PassThrough ==
    rstage \in {"generated", "again"} =>
        /\ lang \notin {"hindi", "odia"} => text = raw
        /\ lang \in {"hindi", "odia"} => text = correct_output(raw, lang)

\* a raw text that repair would change, returned as it is for Telugu
C14_Witness ==
    /\ rstage = "generated"
    /\ lang = "telugu"
    /\ raw = <<"A", ")", " ", "3", NL, ")", " ", "4">>
    /\ correct_output(raw, "hindi") # raw
    /\ text = raw

\* the text without its spaces
RECURSIVE NoBlanks(_)
NoBlanks(t) ==
    IF t = <<>> THEN <<>>
    ELSE (IF Head(t) = " " THEN <<>> ELSE <<Head(t)>>) \o NoBlanks(Tail(t))

\* the periods of decimal numbers: a digit before and a digit after
DecimalPoints(t) ==
    {i \in 2..(Len(t) - 1) : t[i] = "." /\ t[i - 1] \in Digits /\ t[i + 1] \in Digits}

\* the period of a numeric label (digits before it, no digit after it) or
\* the parenthesis of an option letter
LabelEnd(t, i) ==
    /\ i > 1
    /\ \/ t[i] = "." /\ t[i - 1] \in Digits /\ ~(i < Len(t) /\ t[i + 1] \in Digits)
       \/ t[i] = ")" /\ t[i - 1] \in OptionLetters

\* every label has exactly one space after it, or ends its line
WellSpaced(t) ==
    \A i \in 1..Len(t) :
        LabelEnd(t, i)
            => /\ i < Len(t)
               /\ \/ t[i + 1] = NL
                  \/ t[i + 1] = " " /\ ~(i + 1 < Len(t) /\ t[i + 2] = " ")

\* C24: after the white space normalisation of correct_output exactly one
\* space follows the period of a numeric label and the parenthesis of an
\* option letter ('A)x' and 'A)   x' both give 'A) x'), no other character
\* of the text is altered, a text whose spacing is correct is not changed,
\* and a decimal number such as '1.5' is not changed.
C24_WhitespaceNormalisation ==
    Repaired =>
        LET before == join(ansLines) IN
        /\ WellSpaced(text)
        /\ NoBlanks(text) = NoBlanks(before)
        /\ WellSpaced(before) => text = before
        /\ Cardinality(DecimalPoints(text)) = Cardinality(DecimalPoints(before))

\* the option letters of the lines of ls that belong to the question opened
\* by line q (0: before every question-number line) are pairwise distinct
DistinctLetters(ls, q) ==
    \A i, j \in 1..Len(ls) :
        ( /\ i < j
          /\ LastNumberLine(ls, i) = q /\ LastNumberLine(ls, j) = q
          /\ MatchOption(strip(ls[i])) /\ MatchOption(strip(ls[j])) )
            => strip(ls[i])[1] # strip(ls[j])[1]

\* C25: marker recovery gives a truncated-marker line a letter that no
\* well-formed option line of its question carries: when the option letters
\* between two question-number lines are pairwise distinct before repair
\* they are pairwise distinct after it, also when the options before the
\* truncated marker do not start at A ('B) x' followed by ') y').
C25_NextUnusedLetter ==
    Repaired =>
        \A q \in 0..Len(optLines) :
            DistinctLetters(splitlines(raw), q) => DistinctLetters(optLines, q)

(***************************************************************************)
(* Claims on the parser (SpecParse)                                        *)
(***************************************************************************)
\* '<digits>. <text with a ?>': digits, a period, and a '?' with at least
\* one character between the period and it
IsQuestionLine(line) ==
    LET s == strip(line) IN
    \E n \in 1..Len(s) :
        /\ \A i \in 1..n : s[i] \in Digits
        /\ n < Len(s) /\ s[n + 1] = "."
        /\ \E m \in (n + 3)..Len(s) : s[m] = "?"

NumberOf(line) ==
    LET s == strip(line)
        n == CHOOSE n \in 1..Len(s) : (\A i \in 1..n : s[i] \in Digits) /\ s[n + 1] = "."
    IN  SubSeq(s, 1, n)

\* one question line ending in '?', k <= 4 option lines lettered A, B, ...
\* in order, and the line 'Answer: X'
OneQuestionText(ls) ==
    /\ Len(ls) >= 2 /\ Len(ls) <= 6
    /\ IsQuestionLine(ls[1]) /\ ls[1][Len(ls[1])] = "?"
    /\ \A j \in 2..(Len(ls) - 1) :
          Len(ls[j]) >= 2 /\ ls[j][1] = LetterOf(j - 2) /\ ls[j][2] = ")"
    /\ LET a == ls[Len(ls)] IN
          /\ Len(a) = 9
          /\ SubSeq(a, 1, 8) = <<"A", "n", "s", "w", "e", "r", ":", " ">>
          /\ a[9] \in OptionLetters

ExampleText ==
    << <<"1", ".", " ", "W", "h", "a", "t", " ", "i", "s", " ", "2", "+", "2", "?">>,
       <<"A", ")", " ", "3">>, <<"B", ")", " ", "4">>,
       <<"A", "n", "s", "w", "e", "r", ":", " ", "B">> >>

ExampleQuestion ==
    [ number |-> <<"1">>,
      content |-> <<"W", "h", "a", "t", " ", "i", "s", " ", "2", "+", "2", "?">>,
      options |-> << <<"A", ")", " ", "3">>, <<"B", ")", " ", "4">> >>,
      answer |-> <<"A", "n", "s", "w", "e", "r", ":", " ", "B">> ]

QuestionLinesBefore(i) == Cardinality({j \in 1..(i - 1) : IsQuestionLine(plines[j])})

\* C7: a question line, k option lines 'A)', 'B)', ... and the line
\* 'Answer: X' give exactly one Question with the digits as number, the k
\* option lines in order and the answer 'Answer: X' (the text of the example
\* gives number 1, options A and B, answer 'Answer: B'); each later question
\* line first appends the Question in progress, and the last one is appended
\* at the end of the input.
C7_StructuralCoverage ==
    /\ (ppc = "done" /\ OneQuestionText(plines))
          => /\ Len(questions) = 1
             /\ questions[1].number = NumberOf(plines[1])
             /\ questions[1].options = SubSeq(plines, 2, Len(plines) - 1)
             /\ questions[1].answer = plines[Len(plines)]
    /\ (ppc = "done" /\ plines = ExampleText) => questions = <<ExampleQuestion>>
    /\ ppc = "scan"
          => LET n == QuestionLinesBefore(pidx) IN
             /\ n = 0 => current = NoQuestion /\ questions = <<>>
             /\ n >= 1 => current # NoQuestion /\ Len(questions) = n - 1
    /\ ppc = "done" => Len(questions) = QuestionLinesBefore(Len(plines) + 1)

C7_Witness ==
    /\ ppc = "done"
    /\ plines = ExampleText
    /\ questions = <<ExampleQuestion>>

\* the line of the k-th question line of the text
KthQuestionLine(k) ==
    CHOOSE j \in 1..Len(plines) : IsQuestionLine(plines[j]) /\ QuestionLinesBefore(j) = k - 1

\* the text of a question line after the period and the white space that
\* follows it, up to its last '?'
ContentOf(line) ==
    LET s == strip(line)
        r == lstrip(SubSeq(s, Len(NumberOf(line)) + 2, Len(s)))
    IN  SubSeq(r, 1, LastMark(r))

\* C15: no ghost entries: at every step of the scan every Question of the
\* result has the non-empty content of the question line that opened it,
\* the Question in progress is the one opened by the last question line
\* read and is not in the result, which holds the Questions opened before
\* it, each once; at the end of the input every opened Question is in the
\* result exactly once.
C15_NoGhostEntries ==
    ppc \in {"scan", "done"} =>
        LET n == QuestionLinesBefore(pidx) IN
        /\ \A k \in 1..Len(questions) :
              /\ questions[k].content # <<>>
              /\ k <= n
              /\ questions[k].content = ContentOf(plines[KthQuestionLine(k)])
        /\ (ppc = "scan" /\ n = 0) => current = NoQuestion /\ questions = <<>>
        /\ (ppc = "scan" /\ n >= 1)
              => /\ current # NoQuestion
                 /\ current.content = ContentOf(plines[KthQuestionLine(n)])
                 /\ Len(questions) = n - 1
        /\ ppc = "done" => Len(questions) = n

\* in the middle of a text: one Question in the result, another in progress,
\* equal in number and content (the same question line twice)
C15_Witness ==
    /\ ppc = "scan"
    /\ pidx <= Len(plines)
    /\ Len(questions) = 1
    /\ current # NoQuestion
    /\ current.content = questions[1].content

\* C16: every Question of the result has at most four options, and the
\* letters of its options are pairwise distinct.
C16_OptionsBounded ==
    ppc = "done" =>
        \A k \in 1..Len(questions) :
            LET o == questions[k].options IN
            /\ Len(o) <= 4
            /\ \A a, b \in 1..Len(o) : a # b => o[a][1] # o[b][1]

IsAnswerLine(line) == startswith(lower(strip(line)), <<"a", "n", "s", "w", "e", "r">>)

\* what follows the first colon of s
AfterFirstColon(s) ==
    LET C == {i \in 1..Len(s) : s[i] = ":"} IN
    SubSeq(s, (CHOOSE i \in C : \A k \in C : i <= k) + 1, Len(s))

\* C17: an answer line read while a Question is open sets its answer to
\* 'Answer: ' followed by the trimmed text after the first colon of the
\* line ('answer: B: because' gives 'Answer: B: because').
C17_AfterFirstColon ==
    [][ ( /\ ppc = "scan" /\ pidx' = pidx + 1
          /\ current # NoQuestion
          /\ IsAnswerLine(plines[pidx])
          /\ \E i \in 1..Len(plines[pidx]) : plines[pidx][i] = ":" )
        => current'.answer =
              <<"A", "n", "s", "w", "e", "r", ":", " ">>
                 \o strip(AfterFirstColon(strip(plines[pidx])))
      ]_vars

\* the lines of the k-th Question: after its question line, before the next
SpanOf(k) ==
    LET a == KthQuestionLine(k)
        later == {j \in (a + 1)..Len(plines) : IsQuestionLine(plines[j])}
        b == IF later = {} THEN Len(plines) + 1
             ELSE CHOOSE j \in later : \A i \in later : j <= i
    IN  (a + 1)..(b - 1)

\* the lines of a set of line numbers, in text order
RECURSIVE LinesOf(_)
LinesOf(J) ==
    IF J = {} THEN <<>>
    ELSE LET j == CHOOSE j \in J : \A i \in J : j <= i
         IN  <<strip(plines[j])>> \o LinesOf(J \ {j})

\* C18: option and answer lines before the first question line are ignored:
\* as long as no question line was read there is no Question in progress
\* and none in the result, and every Question of the result has the option
\* lines of its own lines only, and an answer only from an answer line of
\* its own lines.
C18_LeadingLinesIgnored ==
    /\ (ppc = "scan" /\ QuestionLinesBefore(pidx) = 0)
          => current = NoQuestion /\ questions = <<>>
    /\ ppc = "done" =>
          /\ Len(questions) = QuestionLinesBefore(Len(plines) + 1)
          /\ \A k \in 1..Len(questions) :
                LET A == {j \in SpanOf(k) : IsAnswerLine(plines[j])} IN
                /\ questions[k].options = LinesOf({j \in SpanOf(k) : MatchOption(strip(plines[j]))})
                /\ A = {} => questions[k].answer = <<>>
                /\ A # {} => questions[k].answer
                                 = answer_of(strip(plines[CHOOSE j \in A : \A i \in A : i <= j]))

\* an option line and an answer line, then a question line: one Question
\* with no option and no answer
C18_Witness ==
    /\ ppc = "done"
    /\ Len(plines) = 3
    /\ plines[1] = <<"A", ")", " ", "3">>
    /\ plines[2] = <<"A", "n", "s", "w", "e", "r", ":", " ", "B">>
    /\ IsQuestionLine(plines[3])
    /\ Len(questions) = 1
    /\ questions[1].options = <<>>
    /\ questions[1].answer = <<>>

\* C19: the numbers of the result are the numeric labels of the question
\* lines of the text, in text order, repeated and non-contiguous numbers
\* kept as they are.
C19_ScanOrder ==
    ppc = "done" =>
        /\ Len(questions) = QuestionLinesBefore(Len(plines) + 1)
        /\ \A k \in 1..Len(questions) :
              questions[k].number = NumberOf(plines[KthQuestionLine(k)])

\* the numbers 12, 1, 1: descending, then repeated
C19_Witness ==
    /\ ppc = "done"
    /\ Len(questions) = 3
    /\ questions[1].number = <<"1", "2">>
    /\ questions[2].number = <<"1">>
    /\ questions[3].number = <<"1">>

\* C26: repair and parser agree on the question boundaries: the options of
\* each Question are the option lines whose closest numbered line before
\* them (the boundary that marker recovery counts from) is the line that
\* opened the Question; an option line after a numbered line without
\* question mark is attached to no earlier Question.
C26_SameBoundaries ==
    ppc = "done" =>
        /\ Len(questions) = QuestionLinesBefore(Len(plines) + 1)
        /\ \A k \in 1..Len(questions) :
              questions[k].options
                  = LinesOf({j \in 1..Len(plines) :
                                /\ MatchOption(strip(plines[j]))
                                /\ LastNumberLine(plines, j) = KthQuestionLine(k)})

(***************************************************************************)
(* Claims on save_pdf and run_mcq_pipeline (SpecSave, SpecPipeline)        *)
(***************************************************************************)
phase(p) ==
    CASE pc[p] = "idle" -> "IDLE"
      [] pc[p] \in PrimarySteps -> "ATTEMPT_PRIMARY"
      [] pc[p] \in FallbackSteps -> "ATTEMPT_FALLBACK"
      [] pc[p] = "returned" -> "DONE"
      [] pc[p] = "raised" -> "FAILED"

RenderEdges ==
    { <<"IDLE", "ATTEMPT_PRIMARY">>,
      <<"ATTEMPT_PRIMARY", "DONE">>, <<"ATTEMPT_PRIMARY", "ATTEMPT_FALLBACK">>,
      <<"ATTEMPT_FALLBACK", "DONE">>, <<"ATTEMPT_FALLBACK", "FAILED">> }

\* C2: the rendering step moves ATTEMPT_PRIMARY -> DONE exactly when the
\* primary renderer succeeds, ATTEMPT_PRIMARY -> ATTEMPT_FALLBACK exactly when
\* it fails, ATTEMPT_FALLBACK -> DONE exactly when the fallback succeeds and
\* ATTEMPT_FALLBACK -> FAILED exactly when it fails; there is no other move,
\* the fallback runs only after a primary failure, and a fallback failure
\* ends in FAILED (the exception leaves save_pdf), never in DONE.
C2_RenderStateMachine ==
    [][\A p \in Procs :
          LET a == phase(p)
              b == phase(p)'
              o == outcome[p]
              n == outcome'[p]
          IN  /\ a # b => <<a, b>> \in RenderEdges
              /\ (o.primary = "none" /\ n.primary = "ok") <=> (a = "ATTEMPT_PRIMARY" /\ b = "DONE")
              /\ (o.primary = "none" /\ n.primary = "error")
                    <=> (a = "ATTEMPT_PRIMARY" /\ b = "ATTEMPT_FALLBACK")
              /\ (o.fallback = "none" /\ n.fallback = "ok") <=> (a = "ATTEMPT_FALLBACK" /\ b = "DONE")
              /\ (o.fallback = "none" /\ n.fallback = "error")
                    <=> (a = "ATTEMPT_FALLBACK" /\ b = "FAILED")
              /\ b = "ATTEMPT_FALLBACK" => n.primary = "error" /\ n.fallback = "none"
              /\ b = "FAILED" => n.primary = "error" /\ n.fallback = "error"
      ]_vars

C2_Witness ==
    /\ pc[1] = "raised"
    /\ outcome[1] = [primary |-> "error", fallback |-> "error"]

\* C3: when the primary renderer raised and the fallback completed, save_pdf
\* has returned True and the output path holds a file written in full by
\* the fallback; a primary failure alone never ends save_pdf with an error.
C3_Handoff ==
    \A p \in Procs :
        /\ (outcome[p].primary = "error" /\ outcome[p].fallback = "ok")
              => /\ pc[p] = "returned"
                 /\ FileAt(outpath[p]) = File(p, "fallback", "complete")
        /\ (outcome[p].primary = "error" /\ outcome[p].fallback # "error")
              => pc[p] # "raised"

C3_Witness ==
    /\ pc[1] = "returned"
    /\ outcome[1] = [primary |-> "error", fallback |-> "ok"]
    /\ FileAt(outpath[1]) = File(1, "fallback", "complete")

WrittenBy(p, renderer) ==
    /\ outpath[p] # NoPath
    /\ FileAt(outpath[p]).by = p
    /\ FileAt(outpath[p]).renderer = renderer

\* C4: no partial output is visible at the destination: while a render
\* attempt is in progress or after it failed the output path holds no file
\* written by that attempt, and after a failure result it holds no
\* half-written file.
C4_NoPartialOutput ==
    \A p \in Procs :
        /\ (pc[p] \in PrimarySteps \/ outcome[p].primary = "error") => ~WrittenBy(p, "primary")
        /\ (pc[p] \in FallbackSteps \/ outcome[p].fallback = "error") => ~WrittenBy(p, "fallback")
        /\ pc[p] = "raised" => FileAt(outpath[p]).state # "partial"

\* C5: the temporary directory of a render is deleted by the time the
\* render call has returned or raised.
C5_TempDirReclaimed ==
    \A p \in Procs : outcome[p].primary # "none" => p \notin tmpdirs

Writing(p) == pc[p] \in {"pw_writing", "fb_writing"}

\* C6: two invocations never write the same output path, and the path an
\* invocation returns holds the document of that invocation.
C6_NoSharedOutput ==
    /\ \A p, q \in Procs :
          (p # q /\ Writing(p) /\ Writing(q)) => outpath[p] # outpath[q]
    /\ \A p \in Procs :
          pc[p] = "returned" => FileAt(outpath[p]).by = p /\ FileAt(outpath[p]).state = "complete"

(***************************************************************************)
(* Claims on the document composer and the font lookups (SpecCompose)      *)
(***************************************************************************)
Built == cpc \in {"built", "again"}

\* a reserved character as its entity, any other character as itself
EntityOf(c) ==
    CASE c = "&" -> Amp [] c = "<" -> Lt [] c = ">" -> Gt
      [] c = "\"" -> Quot [] c = "'" -> Apos [] OTHER -> <<c>>

Escaped(s) == Flatten([i \in 1..Len(s) |-> EntityOf(s[i])])

HasQuestionLine(t) == \E i \in 1..Len(splitlines(t)) : IsQuestionLine(splitlines(t)[i])

\* C11: the document has either one question block per parsed Question and
\* no preformatted block, or exactly one preformatted block equal to the
\* whole original text (escaped) and no question block; it has the
\* preformatted form exactly when parse_mcq_text returned the empty
\* sequence, which is the case exactly for the texts with no question line.
C11_AllOrNothing ==
    Built =>
        LET body == document.body IN
        /\ \/ /\ questions # <<>>
              /\ Len(body) = Len(questions)
              /\ \A i \in 1..Len(body) : body[i].tag = "question"
           \/ /\ questions = <<>>
              /\ Len(body) = 1
              /\ body[1].tag = "pre"
              /\ body[1].text = Escaped(srctext)
        /\ questions = <<>> <=> ~HasQuestionLine(srctext)

\* the texts the document places in its markup
TextsOf(b) ==
    IF b.tag = "pre" THEN {b.text}
    ELSE {b.number, b.content, b.answer} \cup {b.options[i] : i \in 1..Len(b.options)}

Entities == {Amp, Lt, Gt, Quot, Apos}

\* no reserved character stands for itself: none of '<', '>' and the quotes,
\* and every '&' starts an entity
NoneUnescaped(s) ==
    \A i \in 1..Len(s) :
        /\ s[i] \notin {"<", ">", "\"", "'"}
        /\ s[i] = "&" => \E e \in Entities : SubSeq(s, i, i + Len(e) - 1) = e

\* C12: in every text the document places in its markup (number, content,
\* options, answer, verbatim text) no reserved character ('<', '>', '&',
\* the quotes) appears unescaped.
C12_AllEscaped ==
    Built =>
        \A i \in 1..Len(document.body) :
            \A t \in TextsOf(document.body[i]) : NoneUnescaped(t)

\* C13: escaping is not applied twice: every text of the document, put
\* through clean_text_html again, is the text it was.
C13_NoDoubleEscape == cpc = "again" => redocument = document

\* a quote and an entity of '&' in the text: the quote became its entity
\* once, and the second pass changed neither
C13_Witness ==
    /\ cpc = "again"
    /\ srctext = <<"\"", "&", "a", "m", "p", ";">>
    /\ document.body = << [tag |-> "pre", text |-> Quot \o Amp] >>
    /\ redocument = document

\* C20: the font looked up for a language is the font of its trimmed,
\* lower-case key, whatever spelling the renderer is given: the file of the
\* table when the key is known and the file exists, none (Helvetica in the
\* fallback) otherwise.
C20_FontResolution ==
    Built =>
        LET key == lower(strip(given)) IN
        /\ document.font = (IF key \in {Telugu, Hindi, Odia} /\ fontOnDisk
                            THEN font_file_of(key) ELSE None)
        /\ fbfont # None
              => fbfont = (IF key \in {Telugu, Hindi, Odia} /\ fontOnDisk
                           THEN fallback_font(key) ELSE "Helvetica")

\* the lines of a text that are not blank, trimmed
NonEmptyLines(t) ==
    {strip(splitlines(t)[i]) : i \in 1..Len(splitlines(t))} \ {<<>>}

Contains(hay, needle) ==
    \E i \in 1..(Len(hay) - Len(needle) + 1) : SubSeq(hay, i, i + Len(needle) - 1) = needle

\* a line is in the document when the verbatim block holds it, or a
\* question block has it as an option, as its answer, or as its number, a
\* period, spaces and its content; the line is taken as the composer
\* writes it
InDocument(line) ==
    LET shown == clean_text_html(line) IN
    \E i \in 1..Len(document.body) :
        LET b == document.body[i] IN
        IF b.tag = "pre" THEN Contains(b.text, shown)
        ELSE \/ \E j \in 1..Len(b.options) : b.options[j] = shown
             \/ b.has_answer /\ b.answer = shown
             \/ \E k \in 0..Len(line) :
                   shown = b.number \o <<".">> \o [n \in 1..k |-> " "] \o b.content

InFallback(line) == \E i \in 1..Len(fbdrawn.items) : Contains(fbdrawn.items[i], line)

\* the blocks of the document as a sequence of text items
FlatBlock(b) ==
    IF b.tag = "pre" THEN <<b.text>>
    ELSE <<b.number, b.content>> \o b.options
           \o (IF b.has_answer THEN <<b.answer>> ELSE <<>>)

FlatDocument ==
    <<document.title>> \o Flatten([i \in 1..Len(document.body) |-> FlatBlock(document.body[i])])

\* C22: the text items the fallback draws are the flattened blocks of the
\* document given to the primary renderer (the title, then the number and
\* content, the options and the answer of each Question, or the verbatim
\* block), and no line of the text is in one renderer's output and not in
\* the other's.
C22_SameRepresentation ==
    (Built /\ fbdrawn # NoDrawing) =>
        /\ fbdrawn.items = FlatDocument
        /\ \A line \in NonEmptyLines(srctext) : InDocument(line) <=> InFallback(line)

\* C23: every non-empty line of the text is in the composed document in
\* full, in a question block or in the verbatim block.
C23_NoDroppedContent ==
    Built => \A line \in NonEmptyLines(srctext) : InDocument(line)

(***************************************************************************)
(* Claims on the canvas loops (SpecFallback, SpecGenerate)                 *)
(***************************************************************************)
\* the drawString calls so far, in order
Drawn == Flatten(dpages) \o dpage

\* the lines a page of the fallback holds: the cursor positions from the
\* top start position down to the bottom margin
FbLinesPerPage == ((A4_HEIGHT - 2 * 60000) \div 18000) + 1

\* C21: the fallback draws every line read so far exactly once and in order,
\* cut to 150 characters and never wrapped; every drawn line lies between
\* the bottom margin and the top start position; every page but the last
\* holds the same fixed number of lines; at the end the lines of all pages
\* are the lines of the input.
C21_FallbackPagination ==
    dpc \in {"loop", "saved"} =>
        /\ Len(Drawn) = didx - 1
        /\ \A i \in 1..Len(Drawn) :
              /\ Drawn[i].s = SubSeq(dlines[i], 1, IF Len(dlines[i]) < 150 THEN Len(dlines[i]) ELSE 150)
              /\ Drawn[i].y >= 60000
              /\ Drawn[i].y <= A4_HEIGHT - 60000
        /\ \A k \in 1..Len(dpages) :
              (k < Len(dpages) \/ dpc = "loop") => Len(dpages[k]) = FbLinesPerPage
        /\ Len(dpage) <= FbLinesPerPage
        /\ dpc = "saved" => Len(Drawn) = Len(dlines)

\* a text of three pages, with a line the fallback cut
C21_Witness ==
    /\ dpc = "saved"
    /\ Len(dpages) = 3
    /\ Len(dpages[3]) >= 1
    /\ \E i \in 1..Len(dlines) : Len(dlines[i]) > 150 /\ Len(Drawn[i].s) = 150

\* C27: generate.save_pdf draws every piece of text inside the page margins:
\* for every text, runs of empty lines included, each drawString call
\* happens with the cursor at or above the bottom margin (60) and at or
\* below the top start position (height - 80).
C27_InsideMargins ==
    dpc \in {"gen", "while", "gsaved"} =>
        \A i \in 1..Len(Drawn) :
            /\ Drawn[i].y >= 60000
            /\ Drawn[i].y <= A4_HEIGHT - 80000

====
